---- MODULE Spec2Model ----
(***************************************************************************)
(* Model of porepy's mesh-hierarchy builder (fracs/meshing.py: tag_faces,  *)
(* nodes_per_face, assemble_in_bucket) and of the dual virtual element     *)
(* discretization (dual.py: matrix, rhs, extract).                         *)
(*                                                                         *)
(* Indices are 0-based as in the Python source; a TLA+ sequence s stores   *)
(* the source's element i at s[i + 1].                                     *)
(***************************************************************************)
EXTENDS Integers, Sequences, FiniteSets, TLC

\* ------------------------------------------------------------------------
\* Bounds of the model
\* ------------------------------------------------------------------------

\* number of cells per axis of the highest-dimensional Cartesian grids
MaxN == 2

\* ------------------------------------------------------------------------
\* Generic helpers
\* ------------------------------------------------------------------------

Min(a, b) == IF a < b THEN a ELSE b

Max(a, b) == IF a < b THEN b ELSE a

RECURSIVE InsertSorted(_, _)
InsertSorted(x, s) ==
    IF s = <<>> THEN <<x>>
    ELSE IF x <= Head(s) THEN <<x>> \o s
    ELSE <<Head(s)>> \o InsertSorted(x, Tail(s))

\* np.sort of one column
RECURSIVE np_sort(_)
np_sort(s) == IF s = <<>> THEN <<>> ELSE InsertSorted(Head(s), np_sort(Tail(s)))

RECURSIVE SetToSortedSeq(_)
SetToSortedSeq(S) ==
    IF S = {} THEN <<>>
    ELSE LET m == CHOOSE x \in S : \A y \in S : x <= y
         IN <<m>> \o SetToSortedSeq(S \ {m})

RECURSIVE Flatten(_)
Flatten(ss) == IF ss = <<>> THEN <<>> ELSE Head(ss) \o Flatten(Tail(ss))

Range(s) == {s[i] : i \in 1..Len(s)}

\* the sequence s with all its elements evaluated
Eager(s) == s \o <<>>

\* ------------------------------------------------------------------------
\* The Grid capability: incidence structure of a grid
\* ------------------------------------------------------------------------

\* 0-d grid holding one point of the global numbering
PointGrid(p) ==
    [name |-> "PointGrid", dim |-> 0,
     num_nodes |-> 1, num_faces |-> 0, num_cells |-> 1,
     face_nodes |-> <<>>,
     cell_faces |-> << <<>> >>,
     cell_nodes |-> << <<0>> >>,
     global_point_ind |-> <<p>>]

\* 1-d tensor grid through the global points gpi, in that order
TensorGrid1D(gpi) ==
    LET n == Len(gpi) IN
    [name |-> "TensorGrid", dim |-> 1,
     num_nodes |-> n, num_faces |-> n, num_cells |-> n - 1,
     face_nodes |-> [f \in 1..n |-> <<f - 1>>],
     cell_faces |-> [c \in 1..(n - 1) |-> << <<c - 1, -1>>, <<c, 1>> >>],
     cell_nodes |-> [c \in 1..(n - 1) |-> <<c - 1, c>>],
     global_point_ind |-> gpi]

\* 2-d Cartesian grid of nx * ny cells; x-faces are numbered before y-faces
CartGrid2D(nx, ny, gpi) ==
    LET nd(i, j) == i + (nx + 1) * j
        nxf == (nx + 1) * ny
        nyf == nx * (ny + 1)
        xf(i, j) == i + (nx + 1) * j
        yf(i, j) == nxf + i + nx * j
    IN
    [name |-> "CartGrid", dim |-> 2,
     num_nodes |-> (nx + 1) * (ny + 1),
     num_faces |-> nxf + nyf,
     num_cells |-> nx * ny,
     face_nodes |-> [n \in 1..(nxf + nyf) |->
         LET f == n - 1 IN
         IF f < nxf
         THEN LET i == f % (nx + 1)
                  j == f \div (nx + 1)
              IN <<nd(i, j), nd(i, j + 1)>>
         ELSE LET i == (f - nxf) % nx
                  j == (f - nxf) \div nx
              IN <<nd(i, j), nd(i + 1, j)>>],
     cell_faces |-> [n \in 1..(nx * ny) |->
         LET i == (n - 1) % nx
             j == (n - 1) \div nx
         IN << <<xf(i, j), -1>>, <<xf(i + 1, j), 1>>,
               <<yf(i, j), -1>>, <<yf(i, j + 1), 1>> >>],
     cell_nodes |-> [n \in 1..(nx * ny) |->
         LET i == (n - 1) % nx
             j == (n - 1) \div nx
         IN <<nd(i, j), nd(i + 1, j), nd(i, j + 1), nd(i + 1, j + 1)>>],
     global_point_ind |-> gpi]

\* 3-d Cartesian grid of nx * ny * nz cells; x-, then y-, then z-faces
CartGrid3D(nx, ny, nz, gpi) ==
    LET nd(i, j, k) == i + (nx + 1) * j + (nx + 1) * (ny + 1) * k
        nxf == (nx + 1) * ny * nz
        nyf == nx * (ny + 1) * nz
        nzf == nx * ny * (nz + 1)
        xf(i, j, k) == i + (nx + 1) * j + (nx + 1) * ny * k
        yf(i, j, k) == nxf + i + nx * j + nx * (ny + 1) * k
        zf(i, j, k) == nxf + nyf + i + nx * j + nx * ny * k
    IN
    [name |-> "CartGrid", dim |-> 3,
     num_nodes |-> (nx + 1) * (ny + 1) * (nz + 1),
     num_faces |-> nxf + nyf + nzf,
     num_cells |-> nx * ny * nz,
     face_nodes |-> [n \in 1..(nxf + nyf + nzf) |->
         LET f == n - 1 IN
         IF f < nxf
         THEN LET i == f % (nx + 1)
                  j == (f \div (nx + 1)) % ny
                  k == f \div ((nx + 1) * ny)
              IN <<nd(i, j, k), nd(i, j + 1, k),
                   nd(i, j, k + 1), nd(i, j + 1, k + 1)>>
         ELSE IF f < nxf + nyf
         THEN LET g == f - nxf
                  i == g % nx
                  j == (g \div nx) % (ny + 1)
                  k == g \div (nx * (ny + 1))
              IN <<nd(i, j, k), nd(i + 1, j, k),
                   nd(i, j, k + 1), nd(i + 1, j, k + 1)>>
         ELSE LET g == f - nxf - nyf
                  i == g % nx
                  j == (g \div nx) % ny
                  k == g \div (nx * ny)
              IN <<nd(i, j, k), nd(i + 1, j, k),
                   nd(i, j + 1, k), nd(i + 1, j + 1, k)>>],
     cell_faces |-> [n \in 1..(nx * ny * nz) |->
         LET i == (n - 1) % nx
             j == ((n - 1) \div nx) % ny
             k == (n - 1) \div (nx * ny)
         IN << <<xf(i, j, k), -1>>, <<xf(i + 1, j, k), 1>>,
               <<yf(i, j, k), -1>>, <<yf(i, j + 1, k), 1>>,
               <<zf(i, j, k), -1>>, <<zf(i, j, k + 1), 1>> >>],
     cell_nodes |-> [n \in 1..(nx * ny * nz) |->
         LET i == (n - 1) % nx
             j == ((n - 1) \div nx) % ny
             k == (n - 1) \div (nx * ny)
         IN np_sort(<<nd(i, j, k), nd(i + 1, j, k), nd(i, j + 1, k),
                      nd(i + 1, j + 1, k), nd(i, j, k + 1),
                      nd(i + 1, j, k + 1), nd(i, j + 1, k + 1),
                      nd(i + 1, j + 1, k + 1)>>)],
     global_point_ind |-> gpi]

\* the faces a cell of g is incident to
FacesOfCell(g, c) == {g.cell_faces[c + 1][k][1] : k \in 1..Len(g.cell_faces[c + 1])}

\* the cells a face of g is incident to
CellsOfFace(g, f) == {c \in 0..(g.num_cells - 1) : f \in FacesOfCell(g, c)}

\* Grid.get_boundary_faces: the faces with exactly one incident cell, ascending
get_boundary_faces(g) ==
    SetToSortedSeq({f \in 0..(g.num_faces - 1) : Cardinality(CellsOfFace(g, f)) = 1})

\* ------------------------------------------------------------------------
\* Face tags
\* ------------------------------------------------------------------------

\* FaceTag.NONE is the empty tag set; the other classes are flags of a face
FaceTag == {"DOMAIN_BOUNDARY", "FRACTURE", "TIP"}

\* Grid.add_face_tag on the tag vector tv of one grid, for the faces in fs
add_face_tag(tv, fs, tag) ==
    [n \in 1..Len(tv) |-> IF (n - 1) \in fs THEN tv[n] \cup {tag} ELSE tv[n]]

\* Grid.remove_face_tag on the tag vector tv of one grid, for the faces in fs
remove_face_tag(tv, fs, tag) ==
    [n \in 1..Len(tv) |-> IF (n - 1) \in fs THEN tv[n] \ {tag} ELSE tv[n]]

\* ------------------------------------------------------------------------
\* meshing.py: nodes_per_face
\* ------------------------------------------------------------------------

\* 'TensorGrid' in g.name or 'CartGrid' in g.name
IsTensorOrCart(g) == g.name \in {"TensorGrid", "CartGrid"}

\* the number of nodes per face of g; 0 stands for the raised ValueError
nodes_per_face(g) ==
    IF IsTensorOrCart(g) /\ g.dim = 3 THEN 4
    ELSE IF g.name = "TetrahedralGrid" THEN 3
    ELSE IF IsTensorOrCart(g) /\ g.dim = 2 THEN 2
    ELSE IF g.name = "TriangleGrid" THEN 2
    ELSE IF IsTensorOrCart(g) /\ g.dim = 1 THEN 1
    ELSE 0

\* ------------------------------------------------------------------------
\* The grid hierarchies tag_faces and assemble_in_bucket are called with
\* ------------------------------------------------------------------------

N == MaxN

\* global point numbers of the lattice of the highest-dimensional grid
L2(i, j) == i + (N + 1) * j

L3(i, j, k) == i + (N + 1) * j + (N + 1) * (N + 1) * k

Identity(n) == [m \in 1..n |-> m - 1]

Top2D == CartGrid2D(N, N, Identity((N + 1) * (N + 1)))

Top3D == CartGrid3D(N, N, N, Identity((N + 1) * (N + 1) * (N + 1)))

\* fracture along the line y = 1 of the 2-d domain, from x = a to x = b
LineH(a, b) == TensorGrid1D([n \in 1..(b - a + 1) |-> L2(a + n - 1, 1)])

\* fracture along the line x = 1 of the 2-d domain, from y = a to y = b
LineV(a, b) == TensorGrid1D([n \in 1..(b - a + 1) |-> L2(1, a + n - 1)])

\* fracture in the plane x = 1 of the 3-d domain, a * b cells from the corner
\* y = z = 0; mirror numbers its nodes against the z axis
FracX(a, b, mirror) ==
    CartGrid2D(a, b, [n \in 1..((a + 1) * (b + 1)) |->
        LET j == (n - 1) % (a + 1)
            k == (n - 1) \div (a + 1)
        IN L3(1, j, IF mirror THEN b - k ELSE k)])

\* fracture in the plane y = 1 of the 3-d domain, a * b cells
FracY(a, b) ==
    CartGrid2D(a, b, [n \in 1..((a + 1) * (b + 1)) |->
        LET i == (n - 1) % (a + 1)
            k == (n - 1) \div (a + 1)
        IN L3(i, 1, k)])

\* fracture in the plane z = 1 of the 3-d domain, a * b cells
FracZ(a, b) ==
    CartGrid2D(a, b, [n \in 1..((a + 1) * (b + 1)) |->
        LET i == (n - 1) % (a + 1)
            j == (n - 1) \div (a + 1)
        IN L3(i, j, 1)])

\* intersection line x = y = 1 of two fractures, from z = 0 to z = b
Line3D(b) == TensorGrid1D([n \in 1..(b + 1) |-> L3(1, 1, n - 1)])

\* second fracture of a fracture network: it ends on the line x = 1 of the
\* first one (Top2D) and has its other points numbered after those of the first
DfnFrac ==
    CartGrid2D(1, N, [n \in 1..(2 * (N + 1)) |->
        LET i == (n - 1) % 2
            k == (n - 1) \div 2
        IN IF i = 0 THEN L2(1, k) ELSE (N + 1) * (N + 1) + k])

Lines2D ==
    {LineH(p[1], p[2]) : p \in {q \in (0..N) \X (0..N) : q[1] < q[2]}}
    \cup {LineV(0, N)}

Hierarchies2D ==
    { << <<Top2D>> >>, << <<Top2D>>, <<>>, <<>> >> }
    \cup { << <<Top2D>>, <<l>> >> : l \in Lines2D }
    \cup { << <<Top2D>>, <<l>>, <<>> >> : l \in Lines2D }
    \cup { << <<Top2D>>, <<LineH(0, N), LineV(0, N)>>, <<PointGrid(L2(1, 1))>> >> }

Hierarchies3D ==
    { << <<Top3D>>, <<>>, <<>>, <<>> >> }
    \cup { << <<Top3D>>, <<FracX(a, b, m)>>, <<>>, <<>> >> :
          a \in {1, N}, b \in {1, N}, m \in BOOLEAN }
    \cup { << <<Top3D>>, <<FracX(N, b, m), FracY(N, b)>>, <<Line3D(b)>>, <<>> >> :
          b \in 1..N, m \in BOOLEAN }
    \cup { << <<Top3D>>, <<FracX(N, N, FALSE), FracY(N, N), FracZ(N, N)>>,
             <<Line3D(N)>>, <<PointGrid(L3(1, 1, 1))>> >> }

HierarchiesDfn ==
    { << <<Top2D, DfnFrac>>, <<LineV(0, N)>>, <<>> >>,
      << <<Top2D, DfnFrac>>, <<LineV(0, N)>> >> }

Hierarchies == Hierarchies2D \cup Hierarchies3D \cup HierarchiesDfn

\* the tags all faces may carry before tag_faces is called
PreTags == {{}, {"DOMAIN_BOUNDARY"}, {"TIP"}}

\* ------------------------------------------------------------------------
\* State
\* ------------------------------------------------------------------------

VARIABLES
    grids,              \* tag_faces / assemble_in_bucket: the list of grid lists
    check_highest_dim,  \* tag_faces: its flag
    face_tags,          \* face_tags[l][i][f + 1]: the tags of face f of grids[l][i]
    tags_before,        \* the face tags when tag_faces was called
    tag_writes,         \* tag_writes[l][i][f + 1]: the code paths of tag_faces that
                        \* have called add_face_tag for face f of grids[l][i], in order
    pc,                 \* position of the meshing call sequence
    h,                  \* tag_faces: index into grids[0] of the current g_h
    inner,              \* tag_faces: position in the list of intermediate grids
    bucket,             \* assemble_in_bucket: the GridBucket it returns
    grid,               \* dual.py: the grid g, with its geometry
    perm,               \* dual.py: k.perm, one tensor per cell
    f_src,              \* rhs: the source function f
    dpc,                \* position of the discretization call sequence
    cell,               \* matrix: the loop variable c
    idx,                \* matrix: idx
    I,                  \* matrix: the row buffer
    J,                  \* matrix: the column buffer
    data,               \* matrix: the value buffer
    written,            \* matrix: how often each buffer slot was written
    M,                  \* matrix: the returned matrix
    rhs_out,            \* rhs: the returned vector
    up,                 \* extract: its argument
    ext,                \* extract: the returned pair
    u,                  \* projectU: the velocity u
    P0u,                \* projectU: the array P0u, P0u[a][c + 1]
    proj_out            \* projectU: the returned field

mesh_vars ==
    <<grids, check_highest_dim, face_tags, tags_before, tag_writes, pc, h, inner, bucket>>

proj_vars == <<u, P0u, proj_out>>

dual_vars ==
    <<grid, perm, f_src, dpc, cell, idx, I, J, data, written, M, rhs_out, up, ext, proj_vars>>

vars == <<mesh_vars, dual_vars>>

\* ------------------------------------------------------------------------
\* meshing.py: tag_faces
\* ------------------------------------------------------------------------

AllFaces(g) == 0..(g.num_faces - 1)

\* the tags left as they are
keep_tags(gs, tags) == tags

\* lines 427-429: DOMAIN_BOUNDARY is removed from every face of every grid
reset_tags(gs, tags) ==
    [l \in 1..Len(gs) |-> [i \in 1..Len(gs[l]) |->
        remove_face_tag(tags[l][i], AllFaces(gs[l][i]), "DOMAIN_BOUNDARY")]]

\* the assertion only asks for a grid of the highest dimension
some_highest_dim(gs, check) == check => Len(gs[1]) >= 1

\* lines 432-434: whether the assertion on the highest dimension passes
highest_dim_ok(gs, check) == check => Len(gs[1]) = 1

\* lines 439-440: the (g_h-local) nodes of the boundary faces of g_h
bnd_nodes(g_h) ==
    LET bnd_faces == get_boundary_faces(g_h)
    IN UNION {Range(g_h.face_nodes[bnd_faces[n] + 1]) : n \in 1..Len(bnd_faces)}

\* the nodes of the faces bnd_faces_l of g, left in the numbering of g
nodes_loc_numbers(g, bnd_faces_l) ==
    Flatten([n \in 1..Len(bnd_faces_l) |-> g.face_nodes[bnd_faces_l[n] + 1]])

\* lines 445-450: global numbers of the nodes of the faces bnd_faces_l of g
nodes_glb(g, bnd_faces_l) ==
    LET nodes_loc == Flatten([n \in 1..Len(bnd_faces_l) |->
                                 g.face_nodes[bnd_faces_l[n] + 1]])
    IN [n \in 1..Len(nodes_loc) |-> g.global_point_ind[nodes_loc[n] + 1]]

\* np.all instead of np.any along each column
all_per_face(flags, rows, cols) ==
    [c \in 1..cols |-> \A r \in 1..rows : flags[r + rows * (c - 1)]]

\* lines 458-459: flags reshaped to (rows, cols) in column-major order, then
\* np.any along each column
any_per_face(flags, rows, cols) ==
    [c \in 1..cols |-> \E r \in 1..rows : flags[r + rows * (c - 1)]]

\* lines 453-459: for each boundary face of g, whether it is a tip face
is_tip(g, bnd) ==
    LET bnd_faces_l == get_boundary_faces(g)
        glb == nodes_glb(g, bnd_faces_l)
        tip_node == [n \in 1..Len(glb) |-> glb[n] \notin bnd]
    IN any_per_face(tip_node, nodes_per_face(g), Len(bnd_faces_l))

\* lines 444-462: the tags of g after it was tagged against the boundary
\* nodes bnd of a highest-dimensional grid
tag_intermediate(g, tv, bnd) ==
    LET bnd_faces_l == get_boundary_faces(g)
        tip == is_tip(g, bnd)
        tips == {bnd_faces_l[n] : n \in {m \in 1..Len(bnd_faces_l) : tip[m]}}
        rest == {bnd_faces_l[n] : n \in {m \in 1..Len(bnd_faces_l) : ~tip[m]}}
    IN add_face_tag(add_face_tag(tv, tips, "TIP"), rest, "DOMAIN_BOUNDARY")

\* grids[1:-1] of line 441, flattened: <<level, index>> of each grid
Intermediate(gs) ==
    Flatten([m \in 1..Max(Len(gs) - 2, 0) |->
                [i \in 1..Len(gs[m + 1]) |-> <<m + 1, i>>]])

\* the position after the inner loop body number kk of g_h number hh
AfterInner(hh, kk) ==
    IF kk < Len(Intermediate(grids))
    THEN /\ pc' = "loop_g"
         /\ h' = hh
         /\ inner' = kk + 1
    ELSE /\ pc' = IF hh < Len(grids[1]) THEN "loop_h" ELSE "returned"
         /\ h' = hh + 1
         /\ inner' = 0

\* lines 427-429
tag_faces_reset ==
    /\ pc = "call"
    /\ face_tags' = reset_tags(grids, face_tags)
    /\ pc' = "assert"
    /\ UNCHANGED <<grids, check_highest_dim, tags_before, tag_writes, h, inner, bucket,
                   dual_vars>>

\* lines 432-434, the assertion holds
tag_faces_assert_ok ==
    /\ pc = "assert"
    /\ highest_dim_ok(grids, check_highest_dim)
    /\ pc' = IF Len(grids[1]) > 0 THEN "loop_h" ELSE "returned"
    /\ h' = 1
    /\ UNCHANGED <<grids, check_highest_dim, face_tags, tags_before, tag_writes, inner,
                   bucket, dual_vars>>

\* lines 432-434, the assertion fails: tag_faces raises AssertionError
tag_faces_assert_fail ==
    /\ pc = "assert"
    /\ ~highest_dim_ok(grids, check_highest_dim)
    /\ pc' = "failed"
    /\ UNCHANGED <<grids, check_highest_dim, face_tags, tags_before, tag_writes, h, inner,
                   bucket, dual_vars>>

\* the call of add_face_tag by the code path path, noted for the faces fs
note_writes(wv, fs, path) ==
    [n \in 1..Len(wv) |-> IF (n - 1) \in fs THEN Append(wv[n], path) ELSE wv[n]]

\* lines 436-438: the boundary faces of g_h become DOMAIN_BOUNDARY
tag_faces_highest ==
    /\ pc = "loop_h"
    /\ LET g_h == grids[1][h]
           bnd_faces == get_boundary_faces(g_h)
       IN /\ face_tags' = [face_tags EXCEPT ![1][h] =
                              add_face_tag(@, Range(bnd_faces), "DOMAIN_BOUNDARY")]
          /\ tag_writes' = [tag_writes EXCEPT ![1][h] =
                               note_writes(@, Range(bnd_faces), "boundary")]
    /\ AfterInner(h, 0)
    /\ UNCHANGED <<grids, check_highest_dim, tags_before, bucket, dual_vars>>

\* lines 441-462: one grid of an intermediate dimension is tagged
tag_faces_intermediate ==
    /\ pc = "loop_g"
    /\ LET at == Intermediate(grids)[inner]
           g == grids[at[1]][at[2]]
       IN /\ face_tags' = [face_tags EXCEPT ![at[1]][at[2]] =
                              tag_intermediate(g, @, bnd_nodes(grids[1][h]))]
          /\ tag_writes' = [tag_writes EXCEPT ![at[1]][at[2]] =
                               note_writes(@, Range(get_boundary_faces(g)), "tip")]
    /\ AfterInner(h, inner)
    /\ UNCHANGED <<grids, check_highest_dim, tags_before, bucket, dual_vars>>

\* ------------------------------------------------------------------------
\* meshing.py: assemble_in_bucket
\* ------------------------------------------------------------------------

\* the global node numbers of every face of hg, left in local order
face_signatures_unsorted(hg) ==
    LET n_per_face == nodes_per_face(hg)
        indices == Flatten(hg.face_nodes)
    IN [f \in 1..hg.num_faces |->
           Eager([r \in 1..n_per_face |->
               hg.global_point_ind[indices[n_per_face * (f - 1) + r] + 1]])]

\* lines 512-517: the sorted global node numbers of every face of hg
face_signatures(hg) ==
    LET n_per_face == nodes_per_face(hg)
        indices == Flatten(hg.face_nodes)
    IN [f \in 1..hg.num_faces |->
           np_sort([r \in 1..n_per_face |->
               hg.global_point_ind[indices[n_per_face * (f - 1) + r] + 1]])]

\* the sorted global node numbers of every cell of lg
cell_signatures(lg) ==
    [c \in 1..lg.num_cells |->
        np_sort([r \in 1..Len(lg.cell_nodes[c]) |->
            lg.global_point_ind[lg.cell_nodes[c][r] + 1]])]

\* utils.obtain_interdim_mappings: the pairs <<cell of lg, face of hg>> whose
\* signatures are equal (the arrays cell and cell_2_face, zipped)
obtain_interdim_mappings(lg, fn) ==
    LET cn == cell_signatures(lg)
    IN {p \in (0..(Len(cn) - 1)) \X (0..(Len(fn) - 1)) : cn[p[1] + 1] = fn[p[2] + 1]}

\* lines 520-524: the boolean coupling matrix of the pair (hg, lg)
face_cells(hg, lg) ==
    [shape |-> <<lg.num_cells, hg.num_faces>>,
     nz |-> obtain_interdim_mappings(lg, face_signatures(hg))]

\* GridBucket.add_nodes for every list of grids (line 505)
add_nodes(gs) == UNION {{<<l, i>> : i \in 1..Len(gs[l])} : l \in 1..Len(gs)}

\* an edge for every pair of grids of adjacent levels
add_edges_unconditionally(gs) ==
    UNION { UNION { { [hg |-> <<l, i>>, lg |-> <<l + 1, j>>,
                       face_cells |-> face_cells(gs[l][i], gs[l + 1][j])] :
                      j \in 1..Len(gs[l + 1]) } :
                    i \in 1..Len(gs[l]) } :
            l \in 1..(Len(gs) - 1) }

\* lines 508-528: the edges added to the bucket
add_edges(gs) ==
    UNION { UNION { { [hg |-> <<l, i>>, lg |-> <<l + 1, j>>,
                       face_cells |-> face_cells(gs[l][i], gs[l + 1][j])] :
                      j \in {m \in 1..Len(gs[l + 1]) :
                                Cardinality(face_cells(gs[l][i], gs[l + 1][m]).nz) > 0} } :
                    i \in 1..Len(gs[l]) } :
            l \in 1..(Len(gs) - 1) }

\* line 512: nodes_per_face raises ValueError for one of the grids hg
assemble_raises(gs) ==
    \E l \in 1..(Len(gs) - 1) : \E i \in 1..Len(gs[l]) : nodes_per_face(gs[l][i]) = 0

\* lines 503-530
assemble_in_bucket ==
    /\ pc = "returned"
    /\ IF assemble_raises(grids)
       THEN /\ pc' = "assemble_raised"
            /\ UNCHANGED bucket
       ELSE /\ pc' = "assembled"
            /\ bucket' = [nodes |-> add_nodes(grids), edges |-> add_edges(grids)]
    /\ UNCHANGED <<grids, check_highest_dim, face_tags, tags_before, tag_writes, h, inner,
                   dual_vars>>

\* ------------------------------------------------------------------------
\* Numbers: numpy's floats are modelled as exact rationals <<numerator,
\* denominator>> in lowest terms with a positive denominator
\* ------------------------------------------------------------------------

Abs(x) == IF x < 0 THEN -x ELSE x

RECURSIVE GCD(_, _)
GCD(a, b) == IF b = 0 THEN a ELSE GCD(b, a % b)

Rat(n, d) ==
    LET s == IF d < 0 THEN -1 ELSE 1
        g == GCD(Abs(n), Abs(d))
    IN <<(s * n) \div g, (s * d) \div g>>

Zero == <<0, 1>>

One == <<1, 1>>

RInt(n) == <<n, 1>>

RAdd(a, b) == Rat(a[1] * b[2] + b[1] * a[2], a[2] * b[2])

RNeg(a) == <<-a[1], a[2]>>

RSub(a, b) == RAdd(a, RNeg(b))

RMul(a, b) == Rat(a[1] * b[1], a[2] * b[2])

RDiv(a, b) == Rat(a[1] * b[2], a[2] * b[1])

RAbs(a) == <<Abs(a[1]), a[2]>>

RLess(a, b) == a[1] * b[2] < b[1] * a[2]

RECURSIVE SumSeq(_)
SumSeq(s) == IF s = <<>> THEN Zero ELSE RAdd(Head(s), SumSeq(Tail(s)))

RECURSIVE MaxSeq(_)
MaxSeq(s) ==
    IF Len(s) = 1 THEN s[1]
    ELSE LET m == MaxSeq(Tail(s)) IN IF RLess(m, Head(s)) THEN Head(s) ELSE m

\* ------------------------------------------------------------------------
\* Dense matrices: a sequence of rows (np.dot, .T, np.eye, np.linalg)
\* ------------------------------------------------------------------------

NumRows(A) == Len(A)

NumCols(A) == Len(A[1])

Transpose(A) ==
    Eager([j \in 1..NumCols(A) |-> Eager([i \in 1..NumRows(A) |-> A[i][j]])])

MatMul(A, B) ==
    Eager([i \in 1..NumRows(A) |-> Eager([j \in 1..NumCols(B) |->
        SumSeq([t \in 1..NumRows(B) |-> RMul(A[i][t], B[t][j])])])])

MatAdd(A, B) ==
    Eager([i \in 1..NumRows(A) |->
              Eager([j \in 1..NumCols(A) |-> RAdd(A[i][j], B[i][j])])])

MatSub(A, B) ==
    Eager([i \in 1..NumRows(A) |->
              Eager([j \in 1..NumCols(A) |-> RSub(A[i][j], B[i][j])])])

MatScale(A, r) ==
    Eager([i \in 1..NumRows(A) |->
              Eager([j \in 1..NumCols(A) |-> RMul(A[i][j], r)])])

Eye(n) == Eager([i \in 1..n |-> Eager([j \in 1..n |-> IF i = j THEN One ELSE Zero])])

\* determinant of a 1 x 1 or 2 x 2 matrix
Det(A) ==
    IF NumRows(A) = 1 THEN A[1][1]
    ELSE RSub(RMul(A[1][1], A[2][2]), RMul(A[1][2], A[2][1]))

\* np.linalg.inv of a 1 x 1 or 2 x 2 matrix with Det(A) # 0
Inv(A) ==
    IF NumRows(A) = 1 THEN << <<RDiv(One, A[1][1])>> >>
    ELSE MatScale(<< <<A[2][2], RNeg(A[1][2])>>, <<RNeg(A[2][1]), A[1][1]>> >>,
                  RDiv(One, Det(A)))

\* np.linalg.norm(A, np.inf): the largest absolute row sum
NormInf(A) ==
    MaxSeq([i \in 1..NumRows(A) |-> SumSeq([j \in 1..NumCols(A) |-> RAbs(A[i][j])])])

\* ------------------------------------------------------------------------
\* Bounds and inputs of the discretization
\* ------------------------------------------------------------------------

\* largest number of cells of a discretized 1-d grid
MaxCells == 2

\* the solution vectors handed to extract have at most this many entries
\* more than num_faces + num_cells
MaxExtra == 2

\* a grid with its geometry fields, as grid.compute_geometry leaves them
WithGeometry(g, geo) ==
    [x \in (DOMAIN g) \cup (DOMAIN geo) |-> IF x \in DOMAIN geo THEN geo[x] ELSE g[x]]

\* 1-d grid of n cells of length hh on the x axis
DualGrid1D(n, hh) ==
    WithGeometry(TensorGrid1D(Identity(n + 1)),
        [cell_centers |-> [c \in 1..n |-> <<Rat((2 * c - 1) * hh, 2), Zero, Zero>>],
         face_centers |-> [f \in 1..(n + 1) |-> <<RInt((f - 1) * hh), Zero, Zero>>],
         face_normals |-> [f \in 1..(n + 1) |-> <<One, Zero, Zero>>],
         cell_volumes |-> [c \in 1..n |-> RInt(hh)],
         cell_diameters |-> [c \in 1..n |-> RInt(hh)]])

\* 2-d Cartesian grid of nx * ny cells of size 3 * 4 (so of diameter 5)
DualGrid2D(nx, ny) ==
    LET nxf == (nx + 1) * ny
    IN WithGeometry(CartGrid2D(nx, ny, Identity((nx + 1) * (ny + 1))),
        [cell_centers |-> [n \in 1..(nx * ny) |->
             <<Rat(3 * (2 * ((n - 1) % nx) + 1), 2),
               Rat(4 * (2 * ((n - 1) \div nx) + 1), 2), Zero>>],
         face_centers |-> [n \in 1..(nxf + nx * (ny + 1)) |->
             IF n - 1 < nxf
             THEN <<RInt(3 * ((n - 1) % (nx + 1))),
                    Rat(4 * (2 * ((n - 1) \div (nx + 1)) + 1), 2), Zero>>
             ELSE <<Rat(3 * (2 * ((n - 1 - nxf) % nx) + 1), 2),
                    RInt(4 * ((n - 1 - nxf) \div nx)), Zero>>],
         face_normals |-> [n \in 1..(nxf + nx * (ny + 1)) |->
             IF n - 1 < nxf THEN <<RInt(4), Zero, Zero>> ELSE <<Zero, RInt(3), Zero>>],
         cell_volumes |-> [n \in 1..(nx * ny) |-> RInt(12)],
         cell_diameters |-> [n \in 1..(nx * ny) |-> RInt(5)]])

\* g with the volume of cell number bad (1-based; 0: none) doubled: geometry
\* fields that do not belong to the nodes of the grid
WithVolumeOff(g, bad) ==
    [g EXCEPT !.cell_volumes =
        [c \in 1..g.num_cells |-> IF c = bad THEN RMul(RInt(2), @[c]) ELSE @[c]]]

\* g with one more face, which no cell is incident to
WithLooseFace(g, loose) ==
    IF ~loose THEN g
    ELSE [g EXCEPT !.num_faces = @ + 1,
                   !.face_nodes = Append(@, g.face_nodes[1]),
                   !.face_centers = Append(@, g.face_centers[1]),
                   !.face_normals = Append(@, g.face_normals[1])]

DualGrids ==
    {DualGrid1D(n, hh) : n \in 1..MaxCells, hh \in {1, 2}}
    \cup {DualGrid2D(nx, 1) : nx \in 1..2}

DualInputGrids ==
    UNION {{WithLooseFace(WithVolumeOff(g, bad), loose) :
               bad \in 0..g.num_cells, loose \in BOOLEAN} : g \in DualGrids}

\* symmetric positive definite permeability tensors of dimension d
PermChoices(d) ==
    IF d = 1 THEN {<< <<RInt(1)>> >>, << <<RInt(2)>> >>}
    ELSE {Eye(2), << <<RInt(2), Zero>>, <<Zero, One>> >>,
          << <<RInt(2), One>>, <<One, RInt(2)>> >>}

\* the source functions handed to rhs
SourceFns == {"one", "affine"}

\* f evaluated at the points pts (one scalar per point)
f_eval(fid, pts) ==
    Eager([c \in 1..Len(pts) |->
              IF fid = "one" THEN One ELSE RSub(RMul(RInt(2), pts[c][1]), One)])

\* ------------------------------------------------------------------------
\* dual.py: matrix
\* ------------------------------------------------------------------------

\* exponent of tol = 1e-10 (line 22)
TolExp == 10

\* x * 10^e < d for naturals x, d
RECURSIVE LessPow10(_, _, _)
LessPow10(x, d, e) == IF e = 0 THEN x < d ELSE LessPow10(x, (d + 9) \div 10, e - 1)

\* np.abs(x) < tol
below_tol(x) == LessPow10(Abs(x[1]), x[2], TolExp)

\* g.cell_faces as a dense matrix: entry (f, c), 0-based
cell_faces_at(g, f, c) ==
    LET hit == {n \in 1..Len(g.cell_faces[c + 1]) : g.cell_faces[c + 1][n][1] = f}
    IN IF hit = {} THEN 0 ELSE g.cell_faces[c + 1][CHOOSE n \in hit : TRUE][2]

\* g.cell_faces.indptr
indptr(g) ==
    Eager([n \in 1..(g.num_cells + 1) |->
              Len(Flatten([c \in 1..(n - 1) |-> g.cell_faces[c]]))])

\* line 21: faces, cells, sgn = sps.find(g.cell_faces), in column-major order
find_faces(g) == LET e == Flatten(g.cell_faces) IN Eager([n \in 1..Len(e) |-> e[n][1]])

find_sgn(g) == LET e == Flatten(g.cell_faces) IN Eager([n \in 1..Len(e) |-> e[n][2]])

\* the sum of the numbers of faces of the cells, not of their squares
buffer_size_linear(g) ==
    LET ip == indptr(g)
    IN SumSeq([c \in 1..g.num_cells |-> RInt(ip[c + 1] - ip[c])])[1]

\* line 27
buffer_size(g) ==
    LET ip == indptr(g)
    IN SumSeq([c \in 1..g.num_cells |->
                  RInt((ip[c + 1] - ip[c]) * (ip[c + 1] - ip[c]))])[1]

\* lines 34, 51: faces[loc] for cell c (0-based)
faces_loc(g, c) ==
    LET ip == indptr(g) IN SubSeq(find_faces(g), ip[c + 1] + 1, ip[c + 2])

\* lines 34, 52: sgn[loc]
sgn_loc(g, c) ==
    LET ip == indptr(g) IN SubSeq(find_sgn(g), ip[c + 1] + 1, ip[c + 2])

\* line 39: grad = np.eye(g.dim) / diams[c]
grad(g, c) == MatScale(Eye(g.dim), RDiv(One, g.cell_diameters[c + 1]))

\* lines 37-38: mono[i](pt)
mono(g, c, i, pt) ==
    RDiv(RSub(pt[i], g.cell_centers[c + 1][i]), g.cell_diameters[c + 1])

\* lines 42-45: the local matrix D
local_D(g, kc, c) ==
    LET fl == faces_loc(g, c)
        gr == grad(g, c)
        normals == Eager([a \in 1..g.dim |->
                       Eager([n \in 1..Len(fl) |-> g.face_normals[fl[n] + 1][a]])])
        rows == Eager([i \in 1..g.dim |->
                    MatMul(Transpose(normals), MatMul(kc, Transpose(<<gr[i]>>)))])
    IN Eager([n \in 1..Len(fl) |-> Eager([i \in 1..g.dim |-> rows[i][n][1]])])

\* line 48: the local matrix G
local_G(g, kc, c) ==
    MatScale(MatMul(grad(g, c), MatMul(kc, Transpose(grad(g, c)))), g.cell_volumes[c + 1])

\* lines 51-54: the local matrix F
local_F(g, c) ==
    LET fl == faces_loc(g, c)
        sl == sgn_loc(g, c)
        flat == Flatten([i \in 1..g.dim |-> [n \in 1..Len(fl) |->
                    RMul(RInt(sl[n]), mono(g, c, i, g.face_centers[fl[n] + 1]))]])
    IN Eager([i \in 1..g.dim |->
                 Eager([n \in 1..Len(fl) |-> flat[(i - 1) * Len(fl) + n]])])

\* the assert statement compiled away (python -O)
assert_stripped(g, kc, c) == TRUE

\* line 56: the assertion on G, F and D
consistent(g, kc, c) ==
    LET R == MatSub(local_G(g, kc, c), MatMul(local_F(g, c), local_D(g, kc, c)))
    IN \A i \in 1..NumRows(R) : \A j \in 1..NumCols(R) : below_tol(R[i][j])

\* lines 59, 64: np.linalg.inv raises LinAlgError for a singular matrix
invertible(g, kc, c) == Det(local_G(g, kc, c)) # Zero /\ Det(kc) # Zero

\* lines 59-65: the local Hdiv-stiffness matrix A
local_A(g, kc, c) ==
    LET G == local_G(g, kc, c)
        D == local_D(g, kc, c)
        Pi_s == MatMul(Inv(G), local_F(g, c))
        ndof == Len(faces_loc(g, c))
        I_Pi == MatSub(Eye(ndof), MatMul(D, Pi_s))
        w == NormInf(Inv(kc))
    IN MatAdd(MatMul(Transpose(Pi_s), MatMul(G, Pi_s)),
              MatScale(MatMul(Transpose(I_Pi), I_Pi), w))

\* np.tile(faces_loc, (ndof, 1))
tile(fl, ndof) == Eager([r \in 1..ndof |-> fl])

\* ndarray.ravel, row-major
ravel(A) == Flatten(A)

\* buf[start : start + Len(vals)] = vals, start 0-based
assign_slice(buf, start, vals) ==
    Eager([n \in 1..Len(buf) |->
              IF n > start /\ n <= start + Len(vals) THEN vals[n - start] ELSE buf[n]])

\* lines 68-70: the rows written for one cell
block_I(fl) == ravel(Transpose(tile(fl, Len(fl))))

\* lines 68, 71: the columns written for one cell
block_J(fl) == ravel(tile(fl, Len(fl)))

\* a conversion that keeps, of the entries with the same coordinates, the first
coo_first_wins(dd, ii, jj) ==
    LET nr == 1 + (CHOOSE m \in Range(ii) : \A x \in Range(ii) : x <= m)
        nc == 1 + (CHOOSE m \in Range(jj) : \A x \in Range(jj) : x <= m)
        slots(r, q) == SetToSortedSeq({n \in 1..Len(dd) : ii[n] = r /\ jj[n] = q})
    IN [shape |-> <<nr, nc>>,
        val |-> Eager([r \in 1..nr |-> Eager([q \in 1..nc |->
                    LET sl == slots(r - 1, q - 1)
                    IN IF sl = <<>> THEN Zero ELSE dd[sl[1]]])])]

\* a conversion that keeps, of the entries with the same coordinates, the last
coo_last_wins(dd, ii, jj) ==
    LET nr == 1 + (CHOOSE m \in Range(ii) : \A x \in Range(ii) : x <= m)
        nc == 1 + (CHOOSE m \in Range(jj) : \A x \in Range(jj) : x <= m)
        slots(r, q) == SetToSortedSeq({n \in 1..Len(dd) : ii[n] = r /\ jj[n] = q})
    IN [shape |-> <<nr, nc>>,
        val |-> Eager([r \in 1..nr |-> Eager([q \in 1..nc |->
                    LET sl == slots(r - 1, q - 1)
                    IN IF sl = <<>> THEN Zero ELSE dd[sl[Len(sl)]]])])]

\* sps.coo_matrix((data, (I, J))).tocsr(): the shape is taken from the largest
\* indices, entries with the same coordinates are added up
coo_tocsr(dd, ii, jj) ==
    LET nr == 1 + (CHOOSE m \in Range(ii) : \A x \in Range(ii) : x <= m)
        nc == 1 + (CHOOSE m \in Range(jj) : \A x \in Range(jj) : x <= m)
        slots(r, q) == SetToSortedSeq({n \in 1..Len(dd) : ii[n] = r /\ jj[n] = q})
    IN [shape |-> <<nr, nc>>,
        val |-> Eager([r \in 1..nr |-> Eager([q \in 1..nc |->
                    LET sl == slots(r - 1, q - 1)
                    IN SumSeq([n \in 1..Len(sl) |-> dd[sl[n]]])])])]

\* g.cell_faces.T without the negation, entry (c, f)
cell_faces_T_at(g, c, f) == cell_faces_at(g, f, c)

\* line 77: div = -g.cell_faces.T, entry (c, f)
div_at(g, c, f) == -cell_faces_at(g, f, c)

\* line 79: whether the blocks of sps.bmat fit
bmat_fits(g, mass) == mass.shape = <<g.num_faces, g.num_faces>>

\* line 79: sps.bmat([[mass, div.T], [div, None]])
bmat(g, mass) ==
    LET nf == g.num_faces
        n == g.num_faces + g.num_cells
    IN [shape |-> <<n, n>>,
        val |-> Eager([r \in 1..n |-> Eager([q \in 1..n |->
            IF r <= nf /\ q <= nf THEN mass.val[r][q]
            ELSE IF r <= nf THEN RInt(div_at(g, q - nf - 1, r - 1))
            ELSE IF q <= nf THEN RInt(div_at(g, r - nf - 1, q - 1))
            ELSE Zero])])]

NoMatrix == [shape |-> <<0, 0>>, val |-> <<>>]

\* lines 21-31
matrix_begin ==
    /\ dpc = "call"
    /\ \E garbage \in {0, 1} :
          /\ I' = [n \in 1..buffer_size(grid) |-> garbage]
          /\ J' = [n \in 1..buffer_size(grid) |-> garbage]
          /\ data' = [n \in 1..buffer_size(grid) |-> RInt(garbage)]
    /\ written' = [n \in 1..buffer_size(grid) |-> 0]
    /\ idx' = 0
    /\ cell' = 0
    /\ dpc' = "matrix_loop"
    /\ UNCHANGED <<grid, perm, f_src, M, rhs_out, up, ext, mesh_vars, proj_vars>>

\* lines 33-73: one pass of the loop over the cells
matrix_cell ==
    /\ dpc = "matrix_loop"
    /\ cell < grid.num_cells
    /\ consistent(grid, perm[cell + 1], cell)
    /\ invertible(grid, perm[cell + 1], cell)
    /\ LET fl == faces_loc(grid, cell)
           A == local_A(grid, perm[cell + 1], cell)
           cols_size == Len(fl) * Len(fl)
       IN /\ I' = assign_slice(I, idx, block_I(fl))
          /\ J' = assign_slice(J, idx, block_J(fl))
          /\ data' = assign_slice(data, idx, ravel(A))
          /\ written' = [n \in 1..Len(written) |->
                IF n > idx /\ n <= idx + cols_size THEN written[n] + 1 ELSE written[n]]
          /\ idx' = idx + cols_size
    /\ cell' = cell + 1
    /\ UNCHANGED <<grid, perm, f_src, dpc, M, rhs_out, up, ext, mesh_vars, proj_vars>>

\* line 56 (AssertionError) or lines 59, 64 (LinAlgError): matrix raises
matrix_cell_raise ==
    /\ dpc = "matrix_loop"
    /\ cell < grid.num_cells
    /\ ~(consistent(grid, perm[cell + 1], cell) /\ invertible(grid, perm[cell + 1], cell))
    /\ dpc' = "matrix_raised"
    /\ UNCHANGED <<grid, perm, f_src, cell, idx, I, J, data, written, M, rhs_out,
                   up, ext, mesh_vars, proj_vars>>

\* lines 75-79
matrix_return ==
    /\ dpc = "matrix_loop"
    /\ cell = grid.num_cells
    /\ bmat_fits(grid, coo_tocsr(data, I, J))
    /\ M' = bmat(grid, coo_tocsr(data, I, J))
    /\ dpc' = "matrix_done"
    /\ UNCHANGED <<grid, perm, f_src, cell, idx, I, J, data, written, rhs_out,
                   up, ext, mesh_vars, proj_vars>>

\* line 79: sps.bmat raises ValueError for blocks that do not fit
matrix_return_raise ==
    /\ dpc = "matrix_loop"
    /\ cell = grid.num_cells
    /\ ~bmat_fits(grid, coo_tocsr(data, I, J))
    /\ dpc' = "matrix_raised"
    /\ UNCHANGED <<grid, perm, f_src, cell, idx, I, J, data, written, M, rhs_out,
                   up, ext, mesh_vars, proj_vars>>

\* ------------------------------------------------------------------------
\* dual.py: rhs
\* ------------------------------------------------------------------------

\* np.zeros(size)
zeros(size) == Eager([n \in 1..size |-> Zero])

\* np.multiply(g.cell_volumes, f(g.cell_centers)) without the negation
source_term_unsigned(g, fid) ==
    LET fv == f_eval(fid, g.cell_centers)
    IN Eager([c \in 1..g.num_cells |-> RMul(g.cell_volumes[c], fv[c])])

\* -np.multiply(g.cell_volumes, f(g.cell_centers))
source_term(g, fid) ==
    LET fv == f_eval(fid, g.cell_centers)
    IN Eager([c \in 1..g.num_cells |-> RNeg(RMul(g.cell_volumes[c], fv[c]))])

\* lines 92-95
rhs(g, fid) ==
    LET size == g.num_faces + g.num_cells
    IN assign_slice(zeros(size), size - g.num_cells, source_term(g, fid))

rhs_call ==
    /\ dpc = "matrix_done"
    /\ rhs_out' = rhs(grid, f_src)
    /\ dpc' = "rhs_done"
    /\ UNCHANGED <<grid, perm, f_src, cell, idx, I, J, data, written, M, up, ext,
                   mesh_vars, proj_vars>>

\* ------------------------------------------------------------------------
\* dual.py: extract
\* ------------------------------------------------------------------------

\* v[:n]
slice_to(v, n) == SubSeq(v, 1, Min(n, Len(v)))

\* v[n:]
slice_from(v, n) == SubSeq(v, Min(n, Len(v)) + 1, Len(v))

\* a split at num_cells instead of num_faces
extract_at_num_cells(g, v) == <<slice_to(v, g.num_cells), slice_from(v, g.num_cells)>>

\* a pressure that is the last num_cells entries, up[-num_cells:]
extract_tail(g, v) ==
    <<slice_to(v, g.num_faces), slice_from(v, Max(Len(v) - g.num_cells, 0))>>

\* line 107
extract(g, v) == <<slice_to(v, g.num_faces), slice_from(v, g.num_faces)>>

\* the solution vectors of length len handed to extract
UpVectors(len) == {[n \in 1..len |-> a + b * n] : a \in {0, 3}, b \in {0, 1}}

extract_call ==
    /\ dpc = "rhs_done"
    /\ \E len \in 0..(grid.num_faces + grid.num_cells + MaxExtra) :
          \E v \in UpVectors(len) :
             /\ up' = v
             /\ ext' = extract(grid, v)
    /\ dpc' = "extract_done"
    /\ UNCHANGED <<grid, perm, f_src, cell, idx, I, J, data, written, M, rhs_out,
                   mesh_vars, proj_vars>>

\* ------------------------------------------------------------------------
\* dual.py: projectU
\* ------------------------------------------------------------------------

\* the velocities handed to projectU, one value per face
Velocities(g) ==
    {Eager([f \in 1..g.num_faces |-> RInt(a + b * f)]) : a \in {1}, b \in {0, 1}}

\* line 155: np.linalg.inv(G) raises LinAlgError for a singular matrix
invertible_G(g, kc, c) == Det(local_G(g, kc, c)) # Zero

\* lines 155-158: np.dot(Pi_s, u[faces_loc]) / diams[c]
cell_velocity(g, kc, c, uu) ==
    LET fl == faces_loc(g, c)
        Pi_s == MatMul(Inv(local_G(g, kc, c)), local_F(g, c))
        u_loc == Eager([n \in 1..Len(fl) |-> <<uu[fl[n] + 1]>>])
        prod == MatMul(Pi_s, u_loc)
    IN Eager([a \in 1..g.dim |-> RDiv(prod[a][1], g.cell_diameters[c + 1])])

\* P0u[:g.dim, c] = vals
assign_column(P, dim, c, vals) ==
    Eager([a \in 1..Len(P) |->
              Eager([n \in 1..Len(P[a]) |->
                        IF a <= dim /\ n = c + 1 THEN vals[a] ELSE P[a][n]])])

NoField == <<>>

\* lines 120-127
projectU_begin ==
    /\ dpc = "call"
    /\ u' \in Velocities(grid)
    /\ P0u' = [a \in 1..3 |-> zeros(grid.num_cells)]
    /\ idx' = 0
    /\ cell' = 0
    /\ dpc' = "project_loop"
    /\ UNCHANGED <<grid, perm, f_src, I, J, data, written, M, rhs_out, up, ext,
                   proj_out, mesh_vars>>

\* lines 129-158: one pass of the loop over the cells
projectU_cell ==
    /\ dpc = "project_loop"
    /\ cell < grid.num_cells
    /\ consistent(grid, perm[cell + 1], cell)
    /\ invertible_G(grid, perm[cell + 1], cell)
    /\ P0u' = assign_column(P0u, grid.dim, cell,
                            cell_velocity(grid, perm[cell + 1], cell, u))
    /\ cell' = cell + 1
    /\ UNCHANGED <<grid, perm, f_src, dpc, idx, I, J, data, written, M, rhs_out,
                   up, ext, u, proj_out, mesh_vars>>

\* line 152 (AssertionError) or line 155 (LinAlgError): projectU raises
projectU_cell_raise ==
    /\ dpc = "project_loop"
    /\ cell < grid.num_cells
    /\ ~(consistent(grid, perm[cell + 1], cell) /\ invertible_G(grid, perm[cell + 1], cell))
    /\ dpc' = "project_raised"
    /\ UNCHANGED <<grid, perm, f_src, cell, idx, I, J, data, written, M, rhs_out,
                   up, ext, proj_vars, mesh_vars>>

\* line 162
projectU_return ==
    /\ dpc = "project_loop"
    /\ cell = grid.num_cells
    /\ proj_out' = P0u
    /\ dpc' = "project_done"
    /\ UNCHANGED <<grid, perm, f_src, cell, idx, I, J, data, written, M, rhs_out,
                   up, ext, u, P0u, mesh_vars>>

\* ------------------------------------------------------------------------
\* Specification of the discretization
\* ------------------------------------------------------------------------

\* the discretization has not been called
DualIdle ==
    /\ cell = 0
    /\ idx = 0
    /\ I = <<>>
    /\ J = <<>>
    /\ data = <<>>
    /\ written = <<>>
    /\ M = NoMatrix
    /\ rhs_out = <<>>
    /\ up = <<>>
    /\ ext = <<<<>>, <<>>>>
    /\ u = <<>>
    /\ P0u = <<>>
    /\ proj_out = NoField

\* the mesh hierarchy builder has not been called
MeshIdle ==
    /\ grids = << <<Top2D>> >>
    /\ check_highest_dim = TRUE
    /\ face_tags = << <<[f \in 1..Top2D.num_faces |-> {}]>> >>
    /\ tags_before = face_tags
    /\ tag_writes = << <<[f \in 1..Top2D.num_faces |-> <<>>]>> >>
    /\ pc = "idle"
    /\ h = 0
    /\ inner = 0
    /\ bucket = [nodes |-> {}, edges |-> {}]

DualInit ==
    /\ grid \in DualInputGrids
    /\ perm \in [1..grid.num_cells -> PermChoices(grid.dim)]
    /\ f_src \in SourceFns
    /\ dpc = "call"
    /\ DualIdle
    /\ MeshIdle

DualNext ==
    \/ matrix_begin
    \/ matrix_cell
    \/ matrix_cell_raise
    \/ matrix_return
    \/ matrix_return_raise
    \/ rhs_call
    \/ extract_call
    \/ projectU_begin
    \/ projectU_cell
    \/ projectU_cell_raise
    \/ projectU_return

DualSpec == DualInit /\ [][DualNext]_vars

\* ------------------------------------------------------------------------
\* Specification of the mesh hierarchy builder
\* ------------------------------------------------------------------------

MeshInit ==
    /\ grids \in Hierarchies
    /\ check_highest_dim \in BOOLEAN
    /\ \E pre \in PreTags :
          face_tags = [l \in 1..Len(grids) |-> [i \in 1..Len(grids[l]) |->
                          [f \in 1..grids[l][i].num_faces |-> pre]]]
    /\ tags_before = face_tags
    /\ tag_writes = [l \in 1..Len(grids) |-> [i \in 1..Len(grids[l]) |->
                         [f \in 1..grids[l][i].num_faces |-> <<>>]]]
    /\ pc = "call"
    /\ h = 0
    /\ inner = 0
    /\ bucket = [nodes |-> {}, edges |-> {}]
    /\ grid = DualGrid1D(1, 1)
    /\ perm = <<Eye(1)>>
    /\ f_src = "one"
    /\ dpc = "idle"
    /\ DualIdle

MeshNext ==
    \/ tag_faces_reset
    \/ tag_faces_assert_ok
    \/ tag_faces_assert_fail
    \/ tag_faces_highest
    \/ tag_faces_intermediate
    \/ assemble_in_bucket

MeshSpec == MeshInit /\ [][MeshNext]_vars

\* ------------------------------------------------------------------------
\* Properties of tag_faces
\* ------------------------------------------------------------------------

\* tag_faces has returned
TagFacesReturned == pc \in {"returned", "assembled", "assemble_raised"}

\* the grids of the levels strictly between the highest and the lowest
IntermediateIds ==
    UNION {{<<l, i>> : i \in 1..Len(grids[l])} : l \in 2..(Len(grids) - 1)}

AllIds == UNION {{<<l, i>> : i \in 1..Len(grids[l])} : l \in 1..Len(grids)}

\* the faces on the topological boundary of g
OwnBoundary(g) == {f \in AllFaces(g) : Cardinality(CellsOfFace(g, f)) = 1}

\* the global numbers of the nodes of face f of g
GlobalNodesOfFace(g, f) ==
    {g.global_point_ind[n + 1] : n \in Range(g.face_nodes[f + 1])}

\* the global numbers of the nodes of the boundary faces of the
\* highest-dimensional grid
HighestBoundaryNodes ==
    UNION {GlobalNodesOfFace(grids[1][1], f) : f \in OwnBoundary(grids[1][1])}

TagsOf(at, f) == face_tags[at[1]][at[2]][f + 1]

\* C1 (as amended): after tag_faces on a hierarchy with one grid of the
\* highest dimension, a face on the own boundary of a grid of an intermediate
\* level carries TIP if at least one of its nodes is not a boundary node of
\* the highest-dimensional grid (so also when its nodes are a mix of boundary
\* and other nodes), and carries DOMAIN_BOUNDARY exactly if all of its nodes
\* are boundary nodes of the highest-dimensional grid
C1_TipUnlessAllNodesOnBoundary ==
    (TagFacesReturned /\ Len(grids[1]) = 1) =>
        LET hb == HighestBoundaryNodes
        IN \A at \in IntermediateIds : \A f \in OwnBoundary(grids[at[1]][at[2]]) :
               LET on_bnd == GlobalNodesOfFace(grids[at[1]][at[2]], f) \subseteq hb
               IN /\ ~on_bnd => "TIP" \in TagsOf(at, f)
                  /\ on_bnd <=> "DOMAIN_BOUNDARY" \in TagsOf(at, f)

\* a boundary face of an intermediate grid with boundary and other nodes was
\* tagged TIP and not DOMAIN_BOUNDARY
C1_MixedFaceIsTip ==
    /\ TagFacesReturned
    /\ Len(grids[1]) = 1
    /\ LET hb == HighestBoundaryNodes
       IN \E at \in IntermediateIds : \E f \in OwnBoundary(grids[at[1]][at[2]]) :
             LET nodes == GlobalNodesOfFace(grids[at[1]][at[2]], f)
             IN /\ nodes \cap hb # {}
                /\ ~(nodes \subseteq hb)
                /\ TagsOf(at, f) = {"TIP"}

\* C1 as stated: TIP if none of the nodes is a boundary node of the
\* highest-dimensional grid, DOMAIN_BOUNDARY as soon as one of them is
C1_TipOnlyIfNoNodeOnBoundary ==
    (TagFacesReturned /\ Len(grids[1]) = 1) =>
        LET hb == HighestBoundaryNodes
        IN \A at \in IntermediateIds : \A f \in OwnBoundary(grids[at[1]][at[2]]) :
               IF GlobalNodesOfFace(grids[at[1]][at[2]], f) \cap hb = {}
               THEN "TIP" \in TagsOf(at, f)
               ELSE "DOMAIN_BOUNDARY" \in TagsOf(at, f)

\* no face carried a tag when tag_faces was called
FreshGrids ==
    \A at \in AllIds : \A f \in AllFaces(grids[at[1]][at[2]]) :
        tags_before[at[1]][at[2]][f + 1] = {}

\* C2 (stated for any list of grid lists), on grids that carry no tag when
\* tag_faces is called: after tag_faces every face carries exactly one of the
\* classes NONE, DOMAIN_BOUNDARY, FRACTURE, TIP (NONE being the face without a
\* flag); in particular no face carries both TIP and DOMAIN_BOUNDARY
C2_ExactlyOneClass ==
    (TagFacesReturned /\ FreshGrids) =>
        \A at \in AllIds : \A f \in AllFaces(grids[at[1]][at[2]]) :
            Cardinality(TagsOf(at, f)) <= 1

\* C8 (as amended): with check_highest_dim and not exactly one grid of the
\* highest dimension, tag_faces fails before any tag is added: it never
\* reaches the tagging loop, and after the failed call every face carries the
\* tags it carried before the call without DOMAIN_BOUNDARY
C8_FailedCallOnlyResets ==
    /\ (check_highest_dim /\ Len(grids[1]) # 1) => pc \in {"call", "assert", "failed"}
    /\ pc = "failed" =>
          /\ check_highest_dim /\ Len(grids[1]) # 1
          /\ \A at \in AllIds : \A f \in AllFaces(grids[at[1]][at[2]]) :
                TagsOf(at, f) = tags_before[at[1]][at[2]][f + 1] \ {"DOMAIN_BOUNDARY"}

\* tag_faces failed on grids with a face that carried DOMAIN_BOUNDARY
C8_FailedWithBoundaryTags ==
    /\ pc = "failed"
    /\ \E at \in AllIds : \E f \in AllFaces(grids[at[1]][at[2]]) :
          "DOMAIN_BOUNDARY" \in tags_before[at[1]][at[2]][f + 1]

\* C8 as stated: the face tags of every grid are the same after the failed
\* call as before it
C8_FailedCallLeavesTags == pc = "failed" => face_tags = tags_before

\* the hierarchy is one grid of the highest dimension, without fractures
SingleGrid ==
    /\ Len(grids[1]) = 1
    /\ \A l \in 2..Len(grids) : grids[l] = <<>>

\* no face carried TIP or FRACTURE when tag_faces was called
OnlyBoundaryTagsBefore ==
    \A at \in AllIds : \A f \in AllFaces(grids[at[1]][at[2]]) :
        tags_before[at[1]][at[2]][f + 1] \subseteq {"DOMAIN_BOUNDARY"}

\* C12: for a single grid of the highest dimension without fractures (whose
\* faces carried at most DOMAIN_BOUNDARY before), after tag_faces exactly the
\* faces on the outer boundary of the grid carry DOMAIN_BOUNDARY, every
\* interior face is NONE, and no face carries FRACTURE or TIP
C12_SingleGridBoundaryOnly ==
    (TagFacesReturned /\ SingleGrid /\ OnlyBoundaryTagsBefore) =>
        LET bnd == OwnBoundary(grids[1][1])
        IN \A f \in AllFaces(grids[1][1]) :
               TagsOf(<<1, 1>>, f) = IF f \in bnd THEN {"DOMAIN_BOUNDARY"} ELSE {}

\* tag_faces returned for a single grid all of whose faces, interior ones
\* among them, carried DOMAIN_BOUNDARY before
C12_SingleGridRetagged ==
    /\ TagFacesReturned
    /\ SingleGrid
    /\ \A f \in AllFaces(grids[1][1]) : tags_before[1][1][f + 1] = {"DOMAIN_BOUNDARY"}
    /\ \E f \in AllFaces(grids[1][1]) :
          f \notin OwnBoundary(grids[1][1]) /\ TagsOf(<<1, 1>>, f) = {}
    /\ \E f \in OwnBoundary(grids[1][1]) : TagsOf(<<1, 1>>, f) = {"DOMAIN_BOUNDARY"}

\* the hierarchy is one 2-d grid and one 1-d grid, in a list of n levels
TwoLevel(n) ==
    /\ Len(grids) = n
    /\ Len(grids[1]) = 1 /\ grids[1][1].dim = 2
    /\ Len(grids[2]) = 1 /\ grids[2][1].dim = 1
    /\ \A l \in 3..n : grids[l] = <<>>

\* the endpoint face f of the 1-d grid is on the outer boundary of the 2-d grid
EndpointOnBoundary(f) == GlobalNodesOfFace(grids[2][1], f) \subseteq HighestBoundaryNodes

WritesOf(at, f) == tag_writes[at[1]][at[2]][f + 1]

\* C15: during one call of tag_faces every face gets a tag from add_face_tag
\* at most once, so from at most one of the code paths (boundary detection
\* on a highest-dimensional grid, tip detection on an intermediate grid),
\* also with check_highest_dim = False and several highest-dimensional grids
C15_TaggedAtMostOnce ==
    \A at \in AllIds : \A f \in AllFaces(grids[at[1]][at[2]]) :
        Len(WritesOf(at, f)) <= 1

\* with one grid of the highest dimension every face is tagged at most once
TaggedOnceWithOneHighestGrid ==
    Len(grids[1]) = 1 =>
        \A at \in AllIds : \A f \in AllFaces(grids[at[1]][at[2]]) :
            Len(WritesOf(at, f)) <= 1

\* no face is tagged by both code paths
TaggedByOnePath ==
    \A at \in AllIds : \A f \in AllFaces(grids[at[1]][at[2]]) :
        Cardinality(Range(WritesOf(at, f))) <= 1

\* ------------------------------------------------------------------------
\* Properties of assemble_in_bucket
\* ------------------------------------------------------------------------

\* the pairs <<hg, lg>> of grids of adjacent levels
AdjacentPairs ==
    UNION {{<<<<l, i>>, <<l + 1, j>>>> : i \in 1..Len(grids[l]), j \in 1..Len(grids[l + 1])} :
           l \in 1..(Len(grids) - 1)}

GridAt(at) == grids[at[1]][at[2]]

\* the global numbers of the nodes of cell c of g
GlobalNodesOfCell(g, c) ==
    {g.global_point_ind[n + 1] : n \in Range(g.cell_nodes[c + 1])}

\* the pairs <<cell of lg, face of hg>> with the same global nodes
Matching(hg, lg) ==
    {m \in (0..(lg.num_cells - 1)) \X (0..(hg.num_faces - 1)) :
        GlobalNodesOfCell(lg, m[1]) = GlobalNodesOfFace(hg, m[2])}

EdgesOf(pr) == {e \in bucket.edges : e.hg = pr[1] /\ e.lg = pr[2]}

\* C4: for every grid hg of a level and lg of the next level, the coupling
\* matrix has shape (lg.num_cells, hg.num_faces) and holds an entry (cell,
\* face) exactly where the face of hg and the cell of lg have the same global
\* nodes; a pair with no such cell and face has no matrix in the bucket
C4_CouplingIsSignatureEquality ==
    pc = "assembled" =>
        \A pr \in AdjacentPairs :
            /\ \A e \in EdgesOf(pr) :
                  /\ e.face_cells.shape = <<GridAt(pr[2]).num_cells, GridAt(pr[1]).num_faces>>
                  /\ e.face_cells.nz = Matching(GridAt(pr[1]), GridAt(pr[2]))
            /\ EdgesOf(pr) = {} => Matching(GridAt(pr[1]), GridAt(pr[2])) = {}

\* a coupling entry exists for a face whose nodes are not numbered in
\* ascending global order
C4_MatchedFaceNeedsSorting ==
    /\ pc = "assembled"
    /\ \E e \in bucket.edges : \E m \in e.face_cells.nz :
          LET sig == face_signatures_unsorted(GridAt(e.hg))[m[2] + 1]
          IN sig # np_sort(sig)

\* C5: the bucket has an edge between hg and lg exactly if their coupling
\* matrix has an entry; a pair without matching face and cell gets no edge
\* and raises no error; every grid of every level is a node of the bucket
C5_EdgeIffCouplingNonEmpty ==
    /\ pc # "assemble_raised"
    /\ pc = "assembled" =>
          /\ bucket.nodes = AllIds
          /\ \A e \in bucket.edges : <<e.hg, e.lg>> \in AdjacentPairs
          /\ \A pr \in AdjacentPairs :
                /\ Cardinality(EdgesOf(pr)) <= 1
                /\ EdgesOf(pr) # {} <=> face_cells(GridAt(pr[1]), GridAt(pr[2])).nz # {}

\* a pair of grids of adjacent levels has no matching face and cell, and the
\* bucket was assembled without an edge for it
C5_PairWithoutEdge ==
    /\ pc = "assembled"
    /\ \E pr \in AdjacentPairs :
          /\ Matching(GridAt(pr[1]), GridAt(pr[2])) = {}
          /\ EdgesOf(pr) = {}
          /\ {pr[1], pr[2]} \subseteq bucket.nodes

\* ------------------------------------------------------------------------
\* Properties of the discretization
\* ------------------------------------------------------------------------

MatrixReturned == dpc \in {"matrix_done", "rhs_done", "extract_done"}

RhsReturned == dpc \in {"rhs_done", "extract_done"}

FaceIds == 0..(grid.num_faces - 1)

CellIds == 0..(grid.num_cells - 1)

\* the cells incident to face f
IncidentCells(f) == {c \in CellIds : cell_faces_at(grid, f, c) # 0}

\* the position of face f among the faces of cell c
PosIn(c, f) == CHOOSE n \in 1..Len(faces_loc(grid, c)) : faces_loc(grid, c)[n] = f

\* the local blocks of the cells
LocalBlocks == Eager([n \in 1..grid.num_cells |-> local_A(grid, perm[n], n - 1)])

\* the sum, over the cells incident to f1 and f2, of the entries of the local
\* blocks blocks for these faces
SumOfLocalEntries(blocks, f1, f2) ==
    LET cs == SetToSortedSeq(IncidentCells(f1) \cap IncidentCells(f2))
    IN SumSeq([n \in 1..Len(cs) |->
                  blocks[cs[n] + 1][PosIn(cs[n], f1)][PosIn(cs[n], f2)]])

\* C3: for every pair of faces (f1, f2) the global mass entry is the sum, over
\* the cells incident to both faces, of the entry of the cell's local block;
\* for a face shared by two cells the diagonal entry is the sum of both
\* local diagonal contributions
C3_MassIsAdditive ==
    MatrixReturned =>
        LET blocks == LocalBlocks
        IN \A f1 \in FaceIds : \A f2 \in FaceIds :
               M.val[f1 + 1][f2 + 1] = SumOfLocalEntries(blocks, f1, f2)

\* matrix returned for a grid with a face shared by two cells, each of which
\* contributes to the diagonal entry of the face
C3_SharedFaceAssembled ==
    /\ dpc = "matrix_done"
    /\ LET blocks == LocalBlocks
       IN \E f \in FaceIds :
             /\ Cardinality(IncidentCells(f)) = 2
             /\ \A c \in IncidentCells(f) :
                   /\ blocks[c + 1][PosIn(c, f)][PosIn(c, f)] # Zero
                   /\ M.val[f + 1][f + 1] # blocks[c + 1][PosIn(c, f)][PosIn(c, f)]

\* C9: for a grid in which every face is incident to a cell, matrix raises no
\* error when it lays the blocks out (and none at all for a grid with the
\* geometry of its nodes), and it returns a square matrix of size num_faces +
\* num_cells, [[Mass, Div^T], [Div, 0]]: Mass in the face rows and columns,
\* Div the negated transpose of the signed cell-face incidence, and no
\* non-zero entry in the pressure-pressure block
C9_SaddlePointLayout ==
    (\A f \in FaceIds : IncidentCells(f) # {}) =>
        /\ dpc = "matrix_raised" => cell < grid.num_cells
        /\ grid \in DualGrids => dpc # "matrix_raised"
        /\ MatrixReturned =>
              LET nf == grid.num_faces
                  n == grid.num_faces + grid.num_cells
                  mass == coo_tocsr(data, I, J)
              IN /\ M.shape = <<n, n>>
                 /\ Len(M.val) = n
                 /\ \A r \in 1..n : Len(M.val[r]) = n
                 /\ \A f1 \in FaceIds : \A f2 \in FaceIds :
                       M.val[f1 + 1][f2 + 1] = mass.val[f1 + 1][f2 + 1]
                 /\ \A c \in CellIds : \A f \in FaceIds :
                       /\ M.val[nf + c + 1][f + 1] = RInt(-cell_faces_at(grid, f, c))
                       /\ M.val[f + 1][nf + c + 1] = RInt(-cell_faces_at(grid, f, c))
                 /\ \A c1 \in CellIds : \A c2 \in CellIds :
                       M.val[nf + c1 + 1][nf + c2 + 1] = Zero

\* matrix returned for a grid with more than one cell
C9_MatrixReturned ==
    /\ dpc = "matrix_done"
    /\ grid.num_cells > 1
    /\ \A f \in FaceIds : IncidentCells(f) # {}
    /\ \E c \in CellIds : \E f \in FaceIds : M.val[grid.num_faces + c + 1][f + 1] # Zero

\* C10: rhs returns a vector of length num_faces + num_cells, whose first
\* num_faces entries are zero and whose entry num_faces + c is
\* -cell_volume[c] * f(cell_center[c]) for every cell c
C10_RhsIsMinusVolumeTimesSource ==
    RhsReturned =>
        /\ Len(rhs_out) = grid.num_faces + grid.num_cells
        /\ \A f \in FaceIds : rhs_out[f + 1] = Zero
        /\ \A c \in CellIds :
              rhs_out[grid.num_faces + c + 1] =
                  RNeg(RMul(grid.cell_volumes[c + 1],
                            f_eval(f_src, <<grid.cell_centers[c + 1]>>)[1]))

\* rhs returned a vector with a non-zero entry for a source that is not
\* constant
C10_RhsWithSource ==
    /\ dpc = "rhs_done"
    /\ f_src = "affine"
    /\ \E c \in CellIds : rhs_out[grid.num_faces + c + 1] # Zero

\* C6: for a vector up of length num_faces + num_cells, the outputs of extract
\* concatenated are up, the first has length num_faces and the second
\* num_cells
C6_ExtractRoundTrip ==
    (dpc = "extract_done" /\ Len(up) = grid.num_faces + grid.num_cells) =>
        /\ ext[1] \o ext[2] = up
        /\ Len(ext[1]) = grid.num_faces
        /\ Len(ext[2]) = grid.num_cells

\* extract returned for a vector of length num_faces + num_cells with
\* entries that differ from one another
C6_ExtractedFullVector ==
    /\ dpc = "extract_done"
    /\ Len(up) = grid.num_faces + grid.num_cells
    /\ \A m \in 1..Len(up) : \A n \in 1..Len(up) : m # n => up[m] # up[n]

\* C7 (as amended): extract checks no length and never fails: for a vector of
\* any length it returns the pair (up[:num_faces], up[num_faces:]), that is
\* the first min(num_faces, len) entries and the rest
C7_ExtractSlicesAnyLength ==
    dpc = "extract_done" =>
        /\ Len(ext[1]) = Min(grid.num_faces, Len(up))
        /\ Len(ext[2]) = Max(Len(up) - grid.num_faces, 0)
        /\ \A n \in 1..Len(ext[1]) : ext[1][n] = up[n]
        /\ \A n \in 1..Len(ext[2]) : ext[2][n] = up[grid.num_faces + n]

\* extract returned a flux and a pressure for a vector shorter than
\* num_faces + num_cells
C7_ReturnedOnShorter ==
    /\ dpc = "extract_done"
    /\ Len(up) < grid.num_faces + grid.num_cells
    /\ Len(up) > grid.num_faces
    /\ ext[2] # <<>>

\* C7 as stated: extract returns a pair only for a vector of length
\* num_faces + num_cells
C7_ExtractFailsOnMismatch ==
    dpc = "extract_done" => Len(up) = grid.num_faces + grid.num_cells

\* G = F D entrywise within the tolerance, for cell c
GEqualsFD(c) ==
    LET R == MatSub(local_G(grid, perm[c + 1], c),
                    MatMul(local_F(grid, c), local_D(grid, perm[c + 1], c)))
    IN \A i \in 1..NumRows(R) : \A j \in 1..NumCols(R) :
           LessPow10(Abs(R[i][j][1]), R[i][j][2], TolExp)

\* the cells for which the consistency check fails
FailingCells == {c \in CellIds : ~GEqualsFD(c)}

\* the first of the cells bad in cell order
First(bad) == CHOOSE c \in bad : \A d \in bad : c <= d

\* the number of buffer slots of the cells before cell c
SlotsBefore(c) ==
    SumSeq([n \in 1..c |->
               RInt(Len(faces_loc(grid, n - 1)) * Len(faces_loc(grid, n - 1)))])[1]

\* C11: if the check G = F D fails for a cell, matrix and projectU raise at
\* the first such cell in cell order: no later cell is processed (nothing of
\* it is written to the buffers or to P0u), and no matrix and no field, not
\* even a partial one, is returned
C11_FailedCheckAbortsWholeMesh ==
    LET bad == FailingCells
    IN bad # {} =>
        LET first == First(bad)
            slots == SlotsBefore(first)
        IN /\ dpc \notin {"matrix_done", "rhs_done", "extract_done", "project_done"}
           /\ M = NoMatrix
           /\ proj_out = NoField
           /\ dpc \in {"matrix_loop", "project_loop"} => cell <= first
           /\ dpc \in {"matrix_raised", "project_raised"} => cell = first
           /\ dpc \in {"matrix_loop", "matrix_raised"} =>
                 /\ idx <= slots
                 /\ \A n \in 1..Len(written) : n > slots => written[n] = 0
           /\ dpc \in {"project_loop", "project_raised"} =>
                 \A a \in 1..3 : \A c \in CellIds : c >= first => P0u[a][c + 1] = Zero

\* matrix raised at a cell that fails the check, after it had processed a
\* cell that passes it
C11_RaisedAtSecondCell ==
    /\ dpc = "matrix_raised"
    /\ cell = 1
    /\ FailingCells = {1}
    /\ idx > 0
    /\ M = NoMatrix

\* the orders in which the loop over the cells can visit the cells
CellOrders ==
    {o \in [1..grid.num_cells -> CellIds] :
        \A m \in 1..grid.num_cells : \A n \in 1..grid.num_cells : o[m] = o[n] => m = n}

\* the triplets the loop body stores when it visits the cells in the order o
TripletsInOrder(blocks, o) ==
    [I |-> Flatten([n \in 1..Len(o) |-> block_I(faces_loc(grid, o[n]))]),
     J |-> Flatten([n \in 1..Len(o) |-> block_J(faces_loc(grid, o[n]))]),
     data |-> Flatten([n \in 1..Len(o) |-> ravel(blocks[o[n] + 1])])]

\* C14: when matrix returns, the global mass matrix does not depend on the
\* order in which the cells are processed: the triplets of the loop in cell
\* order are those of the buffers, and for every permutation of the cells
\* the triplets of the loop in that order are converted to the same matrix,
\* entry by entry
C14_MassIndependentOfCellOrder ==
    dpc = "matrix_done" =>
        LET blocks == LocalBlocks
            mass == coo_tocsr(data, I, J)
        IN /\ TripletsInOrder(blocks, [n \in 1..grid.num_cells |-> n - 1])
                 = [I |-> I, J |-> J, data |-> data]
           /\ \A o \in CellOrders :
                 LET t == TripletsInOrder(blocks, o)
                 IN coo_tocsr(t.data, t.I, t.J) = mass

\* matrix returned for a grid with two cells that contribute different
\* values to the diagonal entry of the face they share, and whose triplets
\* come in another sequence when the cells are visited in another order
C14_OrderChangesTriplets ==
    /\ dpc = "matrix_done"
    /\ LET blocks == LocalBlocks
       IN /\ \E f \in FaceIds : \E c1 \in IncidentCells(f) : \E c2 \in IncidentCells(f) :
                /\ c1 # c2
                /\ blocks[c1 + 1][PosIn(c1, f)][PosIn(c1, f)]
                       # blocks[c2 + 1][PosIn(c2, f)][PosIn(c2, f)]
          /\ \E o \in CellOrders : TripletsInOrder(blocks, o).data # data

\* the number of faces incident to cell c
NumFacesOf(c) == Cardinality({f \in FaceIds : cell_faces_at(grid, f, c) # 0})

\* the sum of the squared numbers of faces of the cells before cell c
SquaresBefore(c) ==
    SumSeq([n \in 1..c |-> RInt(NumFacesOf(n - 1) * NumFacesOf(n - 1))])[1]

\* C16: in matrix the buffers I, J, data have size = the sum over the cells of
\* (number of incident faces)^2 slots; each cell writes the n_c^2 slots from
\* idx on, next to those of the cells before it, so idx never exceeds size,
\* the slots below idx have been written exactly once and those from idx on
\* not at all; when the loop over the cells ends idx = size and every slot
\* that reaches the sparse-matrix constructor has been written exactly once
C16_BuffersFilledExactly ==
    (dpc \in {"matrix_loop", "matrix_raised"} \/ MatrixReturned) =>
        LET size == SquaresBefore(grid.num_cells)
        IN /\ Len(I) = size /\ Len(J) = size /\ Len(data) = size /\ Len(written) = size
           /\ idx = SquaresBefore(cell)
           /\ idx <= size
           /\ \A n \in 1..size : written[n] = IF n <= idx THEN 1 ELSE 0
           /\ cell = grid.num_cells => idx = size
           /\ MatrixReturned => \A n \in 1..size : written[n] = 1

\* matrix returned after the loop filled the buffers with the blocks of more
\* than one cell
C16_BuffersFull ==
    /\ dpc = "matrix_done"
    /\ grid.num_cells > 1
    /\ idx = Len(data)
    /\ idx > NumFacesOf(0) * NumFacesOf(0)
    /\ \A n \in 1..Len(written) : written[n] = 1

====
